---- MODULE Spec2Model ----
(***************************************************************************)
(* Model of summarizer13.py: the attendance reader (read_csv_file), the    *)
(* markdown structurer (structure_markdown), the five-request prompt       *)
(* pipeline (extract_meeting_notes) and the orchestrator (process_files,   *)
(* main).                                                                  *)
(*                                                                         *)
(* Text is a sequence of characters.  A character is a one-character       *)
(* string, except that a fixed literal of the program that no operation    *)
(* looks inside (a section name, ".vtt", "summary_") is one character of   *)
(* the alphabet.                                                           *)
(***************************************************************************)
EXTENDS Integers, Sequences, FiniteSets, TLC

VARIABLES
    csv_file,          \* read_csv_file: the file at file_path
    csv_ret,           \* read_csv_file: what the call did
    csv_call,          \* read_csv_file: who was asked for the participants
    md_content,        \* structure_markdown: argument content
    md_participants,   \* structure_markdown: argument participants
    md_out,            \* structure_markdown: what the call did
    args,              \* main: the parsed command line
    disk,              \* main: the input files on disk
    pc,                \* main: position of the process
    vtt_files,         \* process_files: result of glob.glob
    idx,               \* process_files: position of the for loop
    cur,               \* locals of the file being processed
    clock,             \* datetime.now(), in seconds
    log,               \* every external effect so far, in order
    out_fs,            \* output side of the file system
    printed            \* messages printed by main / process_files

csv_vars  == <<csv_file, csv_ret, csv_call>>
md_vars   == <<md_content, md_participants, md_out>>
main_vars == <<args, disk, pc, vtt_files, idx, cur, clock, log, out_fs, printed>>
vars      == <<csv_file, csv_ret, csv_call, md_content, md_participants, md_out,
               args, disk, pc, vtt_files, idx, cur, clock, log, out_fs, printed>>

----------------------------------------------------------------------------
(* Bounds *)

MaxRows == 6
MaxLines == 3
MaxExtra == 1
MaxClock == 1

----------------------------------------------------------------------------
(* Characters and the str methods the program uses *)

NL == "\n"
SP == " "

\* The characters str.strip() removes.
Whitespace == {SP, NL}

RECURSIVE lstrip(_)
lstrip(s) ==
    IF s = <<>> THEN s
    ELSE IF Head(s) \in Whitespace THEN lstrip(Tail(s)) ELSE s

RECURSIVE rstrip(_)
rstrip(s) ==
    IF s = <<>> THEN s
    ELSE IF s[Len(s)] \in Whitespace THEN rstrip(SubSeq(s, 1, Len(s) - 1)) ELSE s

strip(s) == rstrip(lstrip(s))

\* str.split('\n'): always at least one piece.
RECURSIVE split_nl(_)
split_nl(s) ==
    IF \A i \in 1..Len(s) : s[i] # NL THEN <<s>>
    ELSE LET i == CHOOSE k \in 1..Len(s) :
                     s[k] = NL /\ \A j \in 1..(k - 1) : s[j] # NL
         IN  <<SubSeq(s, 1, i - 1)>> \o split_nl(SubSeq(s, i + 1, Len(s)))

Range(f) == { f[i] : i \in DOMAIN f }

RECURSIVE Concat(_)
Concat(ss) == IF ss = <<>> THEN <<>> ELSE Head(ss) \o Concat(Tail(ss))

----------------------------------------------------------------------------
(* read_csv_file *)

\* Rows as csv.reader yields them: a row is a sequence of fields, a blank
\* line is the row with no field.
RowSet ==
    { <<>>,
      << <<SP, "n">>, <<"e">> >>,
      << <<SP, "n", SP>>, <<"e">>, <<"d", SP, SP>> >>,
      << <<"m", SP, "m">>, <<"e">>, <<SP, "t">>, <<"x">> >>,
      << <<SP>>, <<>>, <<>> >> }

NoFile == [exists |-> FALSE, rows |-> <<>>]

CsvFiles ==
    {NoFile} \cup
    { [exists |-> TRUE, rows |-> r] :
        r \in UNION { [1..n -> RowSet] : n \in 0..MaxRows } }

Participant(row) == [name |-> strip(row[1]), total_duration |-> strip(row[3])]

RECURSIVE CollectRows(_)
CollectRows(rows) ==
    IF rows = <<>> THEN <<>>
    ELSE IF Len(Head(rows)) >= 3
         THEN <<Participant(Head(rows))>> \o CollectRows(Tail(rows))
         ELSE CollectRows(Tail(rows))

read_csv_file_skip3(file) ==
    IF ~file.exists THEN [status |-> "FileNotFoundError", value |-> <<>>]
    ELSE IF Len(file.rows) < 3 THEN [status |-> "StopIteration", value |-> <<>>]
    ELSE [status |-> "ok", value |-> CollectRows(SubSeq(file.rows, 4, Len(file.rows)))]

\* open() raises on a missing file; each of the four next() calls raises
\* StopIteration when the rows have run out.
read_csv_file(file) ==
    IF ~file.exists THEN [status |-> "FileNotFoundError", value |-> <<>>]
    ELSE IF Len(file.rows) < 4 THEN [status |-> "StopIteration", value |-> <<>>]
    ELSE [status |-> "ok", value |-> CollectRows(SubSeq(file.rows, 5, Len(file.rows)))]

CsvIdle == [status |-> "idle", value |-> <<>>]

participants_unguarded(file) == read_csv_file(file)

\* read_csv_file(csv_file_path) if os.path.exists(csv_file_path) else []
participants_or_empty(file) ==
    IF file.exists THEN read_csv_file(file) ELSE [status |-> "ok", value |-> <<>>]

\* read_csv_file(file_path) is called with the path as it is.
CallReadCsv ==
    /\ csv_call = "none"
    /\ csv_call' = "read_csv_file"
    /\ csv_ret' = read_csv_file(csv_file)
    /\ UNCHANGED <<csv_file, md_vars, main_vars>>

\* The participants are obtained the way process_files and main obtain them.
CallParticipantsOrEmpty ==
    /\ csv_call = "none"
    /\ csv_call' = IF csv_file.exists THEN "caller, read_csv_file" ELSE "caller"
    /\ csv_ret' = participants_or_empty(csv_file)
    /\ UNCHANGED <<csv_file, md_vars, main_vars>>

----------------------------------------------------------------------------
(* structure_markdown *)

MO == "Meeting Overview"
MT == "Main Topics"
DI == "Decisions and Impact"
AI == "Action Items"

\* The list of line 180, which is also the alternation of the regex of line 175.
Headers == {MO, MT, DI, AI}

H2 == <<"#", "#", SP>>

\* re.split(r'\n(?=(?:Meeting Overview|...))', content): cut at, and drop,
\* every "\n" that one of the section names follows at once.
RECURSIVE re_split(_)
re_split(s) ==
    LET cuts == { k \in 1..(Len(s) - 1) : s[k] = NL /\ s[k + 1] \in Headers }
    IN  IF cuts = {} THEN <<s>>
        ELSE LET i == CHOOSE k \in cuts : \A j \in cuts : k <= j
             IN  <<SubSeq(s, 1, i - 1)>> \o re_split(SubSeq(s, i + 1, Len(s)))

EmitLine_stripped(line) ==
    IF strip(line) # <<>> THEN strip(line) \o <<NL>> ELSE <<>>

\* if line.strip(): structured_content += f"{line}\n"
EmitLine(line) ==
    IF strip(line) # <<>> THEN line \o <<NL>> ELSE <<>>

EmitLines(lines) == Concat([i \in 1..Len(lines) |-> EmitLine(lines[i])])

\* The branch of a section whose first line is a section name.
HeadedChunk(header, lines) ==
    H2 \o header \o <<NL>> \o EmitLines(Tail(lines))

UnheadedChunk_skip_first(lines) == EmitLines(Tail(lines))

\* The else branch: every non-blank line, the first included.
UnheadedChunk(lines) == EmitLines(lines)

IsHeader_prefix(header) == header # <<>> /\ Head(header) \in Headers

\* header in ['Meeting Overview', 'Main Topics', ...]
IsHeader(header) == Len(header) = 1 /\ header[1] \in Headers

\* One pass of the body of the for loop of line 176.
Chunk(section) ==
    LET lines  == split_nl(section)
        header == strip(lines[1])
    IN  (IF IsHeader(header) THEN HeadedChunk(header, lines)
         ELSE UnheadedChunk(lines)) \o <<NL>>

Bullet(participant) ==
    <<"-", SP>> \o participant.name \o <<SP, "(Total Duration:", SP>>
        \o participant.total_duration \o <<")", NL>>

structure_markdown(content, title, base_name, participants) ==
    LET sections == re_split(content)
    IN  <<"#", SP>> \o base_name \o <<NL, NL>>
        \o Concat([i \in 1..Len(sections) |-> Chunk(sections[i])])
        \o H2 \o <<"Participants", NL>>
        \o Concat([i \in 1..Len(participants) |-> Bullet(participants[i])])

\* Lines a model response is made of: bare section names, a section name
\* with text after it, with a blank after it or before it, content, indented
\* content, a blank line, a line of blanks, and a markdown header.
LineSet ==
    { <<MO>>, <<MT>>,
      <<MT, ":">>, <<AI, SP>>, <<SP, MT>>,
      <<"x">>, <<SP, "y">>, <<>>, <<SP>>,
      H2 \o <<"S">> }

RECURSIVE Join(_)
Join(lines) ==
    IF lines = <<>> THEN <<>>
    ELSE IF Len(lines) = 1 THEN lines[1]
    ELSE lines[1] \o <<NL>> \o Join(Tail(lines))

\* The four sections in order, each with one line of content.
FourSections == << <<MO>>, <<"o">>, <<MT>>, <<"t">>, <<DI>>, <<"d">>, <<AI>>, <<"a">> >>

RECURSIVE WithExtra(_, _)
WithExtra(lines, n) ==
    IF n = 0 THEN {lines}
    ELSE {lines} \cup
         UNION { WithExtra(SubSeq(lines, 1, p) \o <<l>> \o SubSeq(lines, p + 1, Len(lines)),
                           n - 1) :
                   p \in 0..Len(lines), l \in LineSet }

MdTexts ==
    { Join(ls) : ls \in UNION { [1..n -> LineSet] : n \in 0..MaxLines } }
    \cup { Join(ls) : ls \in WithExtra(FourSections, MaxExtra) }

P1 == [name |-> <<"n">>, total_duration |-> <<"d">>]
P2 == [name |-> <<"m", SP, "m">>, total_duration |-> <<"1", ":", "0">>]

ParticipantLists == { <<>>, <<P1>>, <<P2, P1>> }

Title == <<"Metaverse Standards Forum">>
MdBase == <<"m">>

MdIdle == [called |-> FALSE, value |-> <<>>]

\* A caller invokes structure_markdown once.
CallStructure ==
    /\ ~md_out.called
    /\ md_out' = [called |-> TRUE,
                  value  |-> structure_markdown(md_content, Title, MdBase, md_participants)]
    /\ UNCHANGED <<md_content, md_participants, csv_vars, main_vars>>

----------------------------------------------------------------------------
(* Files, paths and the command line *)

VttExt == ".vtt"

\* File names of the input directory, as characters.
N1 == <<"m", VttExt>>
N2 == <<"m", VttExt, "2", VttExt>>
N3 == <<"k", VttExt>>
N4 == <<"m", ".txt">>
FileNames == {N1, N2, N3, N4}

Dir == <<"D">>

\* str.replace(".vtt", ""): every occurrence is removed.
base_name_of(name) == SelectSeq(name, LAMBDA c : c # VttExt)

\* f"{base_name}.csv"
csv_name_of(base_name) == base_name \o <<".csv">>

\* glob.glob(os.path.join(directory, "*.vtt")): the names that end in ".vtt",
\* in the order the directory gives them.
glob_vtt(files) == SelectSeq(files, LAMBDA n : n[Len(n)] = VttExt)

Header4 == << <<"h">> >>
CsvTwo ==
    [exists |-> TRUE,
     rows   |-> << Header4, Header4, Header4, Header4,
                   << <<SP, "n", SP>>, <<"e">>, <<"d", SP, SP>> >>,
                   << <<SP, "n">>, <<"e">> >>,
                   << <<"m", SP, "m">>, <<"e">>, <<SP, "t">>, <<"x">> >> >>]
CsvShort == [exists |-> TRUE, rows |-> << Header4, Header4 >>]
CsvChoices == {NoFile, CsvTwo, CsvShort}

RECURSIVE DistinctSeqs(_, _)
DistinctSeqs(S, n) ==
    IF n = 0 THEN {<<>>}
    ELSE {<<>>} \cup UNION { { <<x>> \o t : t \in DistinctSeqs(S \ {x}, n - 1) } : x \in S }

Disks(listings) ==
    UNION { { [files |-> fs, csv |-> c] :
                c \in [ { csv_name_of(base_name_of(n)) : n \in Range(glob_vtt(fs)) } -> CsvChoices ] } :
            fs \in listings }

\* os.path.exists / open on the input side.
file_at(d, csv_name) == IF csv_name \in DOMAIN d.csv THEN d.csv[csv_name] ELSE NoFile
exists_input(d, name) == name \in Range(d.files)

OutArg == [dir |-> <<>>, name |-> <<"out.md">>]
NoOut  == [dir |-> <<>>, name |-> <<>>]

\* The command lines: -d on a directory of up to three transcripts, or of a
\* transcript and another file; -i on a file that exists or not, with or
\* without -m; neither.  An option that is absent or empty is <<>>.
Scenarios ==
    { [args |-> [input |-> <<>>, directory |-> Dir, output_md |-> NoOut], disk |-> d] :
        d \in Disks(DistinctSeqs({N1, N2, N3}, 3) \cup {<<N4, N1>>}) }
    \cup
    UNION { { [args |-> [input |-> n, directory |-> <<>>, output_md |-> o], disk |-> d] :
                o \in {NoOut, OutArg}, d \in Disks({<<>>, <<n>>, <<N3>>}) } :
            n \in {N1, N2, N4} }
    \cup
    { [args |-> [input |-> <<>>, directory |-> <<>>, output_md |-> o], disk |-> d] :
        o \in {NoOut, OutArg}, d \in Disks({<<>>, <<N1>>}) }

----------------------------------------------------------------------------
(* The prompt pipeline *)

Prompts == << "overview_prompt", "main_topics_prompt", "decisions_impact_prompt",
              "action_items_prompt", "post_processing_prompt" >>

\* What the model may answer to an extraction prompt and to the
\* post-processing prompt.
ExtractResponses == { <<"r">>, <<"s">> }
PostResponses == { Join(FourSections), <<>> }

Captions == << <<"Hello">>, <<"world">> >>

RECURSIVE JoinWith(_, _)
JoinWith(parts, sep) ==
    IF parts = <<>> THEN <<>>
    ELSE IF Len(parts) = 1 THEN parts[1]
    ELSE parts[1] \o sep \o JoinWith(Tail(parts), sep)

\* " ".join([caption.text for caption in vtt])
read_vtt_file(captions) == JoinWith(captions, <<SP>>)

content_of_swapped(r) ==
    <<MO, NL>> \o r[1] \o <<NL, NL, MT, NL>> \o r[3]
        \o <<NL, NL, DI, NL>> \o r[2] \o <<NL, NL, AI, NL>> \o r[4]

\* The f-string of line 203 over the four extraction results.
content_of(r) ==
    <<MO, NL>> \o r[1] \o <<NL, NL, MT, NL>> \o r[2]
        \o <<NL, NL, DI, NL>> \o r[3] \o <<NL, NL, AI, NL>> \o r[4]

\* The text the k-th request carries into its template.
request_input(k, transcript, responses) ==
    IF k <= 4 THEN transcript ELSE content_of(responses)

----------------------------------------------------------------------------
(* main and process_files *)

NoCur ==
    [name |-> <<>>, base_name |-> <<>>, csv_name |-> <<>>, participants |-> <<>>,
     transcript |-> <<>>, k |-> 0, responses |-> <<>>, request |-> <<>>,
     result |-> <<>>, md_file_path |-> NoOut, error |-> "none"]

main_branch_no_exists_check(a, d) ==
    IF a.directory # <<>> THEN "directory"
    ELSE IF a.input # <<>> THEN "file"
    ELSE "help"

\* The if / elif / else of main, with the early return of line 248.
main_branch(a, d) ==
    IF a.directory # <<>> THEN "directory"
    ELSE IF a.input # <<>>
         THEN IF ~exists_input(d, a.input) THEN "not_found" ELSE "file"
    ELSE "help"

DirectoryMode == args.directory # <<>>

\* The process is started on some command line and disk; the two functions
\* are not being called alone.
MainInit ==
    /\ \E sc \in Scenarios : args = sc.args /\ disk = sc.disk
    /\ pc = "start"
    /\ vtt_files = <<>>
    /\ idx = 0
    /\ cur = NoCur
    /\ clock = 0
    /\ log = <<>>
    /\ out_fs = <<>>
    /\ printed = <<>>
    /\ csv_file = NoFile
    /\ csv_ret = CsvIdle
    /\ csv_call = "none"
    /\ md_content = <<>>
    /\ md_participants = <<>>
    /\ md_out = MdIdle

Event(op, what) == [op |-> op, file |-> cur.name, what |-> what]

Propagate_continue(err) ==
    /\ cur' = [cur EXCEPT !.error = err]
    /\ IF DirectoryMode THEN pc' = "loop" /\ idx' = idx + 1
       ELSE pc' = "crashed" /\ idx' = idx

\* Nothing catches an exception: it leaves the loop of process_files and main.
Propagate(err) ==
    /\ pc' = "crashed"
    /\ cur' = [cur EXCEPT !.error = err]
    /\ idx' = idx

\* The end of the body of the loop, or of the elif branch of main.
FileDone ==
    IF DirectoryMode THEN pc' = "loop" /\ idx' = idx + 1
    ELSE pc' = "done" /\ idx' = idx

MainDirectory ==
    /\ pc = "start"
    /\ main_branch(args, disk) = "directory"
    /\ vtt_files' = glob_vtt(disk.files)
    /\ idx' = 1
    /\ pc' = "loop"
    /\ UNCHANGED <<args, disk, cur, clock, log, out_fs, printed, csv_vars, md_vars>>

MainNotFound ==
    /\ pc = "start"
    /\ main_branch(args, disk) = "not_found"
    /\ printed' = Append(printed, "File not found")
    /\ pc' = "done"
    /\ UNCHANGED <<args, disk, vtt_files, idx, cur, clock, log, out_fs, csv_vars, md_vars>>

MainFile ==
    /\ pc = "start"
    /\ main_branch(args, disk) = "file"
    /\ cur' = [NoCur EXCEPT !.name = args.input]
    /\ pc' = "csv"
    /\ UNCHANGED <<args, disk, vtt_files, idx, clock, log, out_fs, printed, csv_vars, md_vars>>

MainHelp ==
    /\ pc = "start"
    /\ main_branch(args, disk) = "help"
    /\ printed' = Append(printed, "help")
    /\ pc' = "done"
    /\ UNCHANGED <<args, disk, vtt_files, idx, cur, clock, log, out_fs, csv_vars, md_vars>>

\* for file_path in vtt_files
LoopHead ==
    /\ pc = "loop"
    /\ IF idx <= Len(vtt_files)
       THEN cur' = [NoCur EXCEPT !.name = vtt_files[idx]] /\ pc' = "csv"
       ELSE cur' = cur /\ pc' = "done"
    /\ UNCHANGED <<args, disk, vtt_files, idx, clock, log, out_fs, printed, csv_vars, md_vars>>

\* base_name, csv_file_path, participants
LoadParticipants ==
    /\ pc = "csv"
    /\ LET base == base_name_of(cur.name)
           f    == file_at(disk, csv_name_of(base))
           r    == participants_or_empty(f)
           here == [cur EXCEPT !.base_name = base, !.csv_name = csv_name_of(base)]
       IN  /\ log' = IF f.exists /\ r.status # "FileNotFoundError"
                     THEN Append(log, [op |-> "read_csv", file |-> cur.name,
                                       what |-> csv_name_of(base)])
                     ELSE log
           /\ IF r.status = "ok"
              THEN /\ cur' = [here EXCEPT !.participants = r.value]
                   /\ pc' = "vtt"
                   /\ idx' = idx
              ELSE Propagate(r.status)
    /\ UNCHANGED <<args, disk, vtt_files, clock, out_fs, printed, csv_vars, md_vars>>

\* transcript = read_vtt_file(file_path); webvtt.read raises on a file that
\* is missing or is no caption file.
ReadTranscript ==
    /\ pc = "vtt"
    /\ log' = Append(log, Event("read_vtt", cur.name))
    /\ \E parsed \in BOOLEAN :
          IF parsed /\ exists_input(disk, cur.name)
          THEN /\ cur' = [cur EXCEPT !.transcript = read_vtt_file(Captions), !.k = 1]
               /\ pc' = "llm_send"
               /\ idx' = idx
          ELSE Propagate("read_vtt_file")
    /\ UNCHANGED <<args, disk, vtt_files, clock, out_fs, printed, csv_vars, md_vars>>

\* model.invoke(query) is entered.
SendRequest ==
    /\ pc = "llm_send"
    /\ LET req == [prompt |-> Prompts[cur.k],
                   input  |-> request_input(cur.k, cur.transcript, cur.responses)]
       IN  /\ cur' = [cur EXCEPT !.request = req]
           /\ log' = Append(log, Event("llm_request", Prompts[cur.k]))
    /\ pc' = "llm_wait"
    /\ UNCHANGED <<args, disk, vtt_files, idx, clock, out_fs, printed, csv_vars, md_vars>>

\* model.invoke(query) returns response.content, or raises.  The fifth
\* response goes through structure_markdown (line 206) and
\* extract_meeting_notes returns: its locals are gone, the result stays.
ReceiveResponse ==
    /\ pc = "llm_wait"
    /\ \/ /\ Propagate("llm")
          /\ log' = log
       \/ \E r \in (IF cur.k <= 4 THEN ExtractResponses ELSE PostResponses) :
            /\ log' = Append(log, Event("llm_return", Prompts[cur.k]))
            /\ idx' = idx
            /\ IF cur.k <= 4
               THEN /\ cur' = [cur EXCEPT !.responses = Append(@, r), !.k = @ + 1]
                    /\ pc' = "llm_send"
               ELSE /\ cur' = [cur EXCEPT !.responses = <<>>, !.request = <<>>, !.k = 0,
                                          !.result = structure_markdown(
                                              r, Title, cur.base_name, cur.participants)]
                    /\ pc' = "stamp"
    /\ UNCHANGED <<args, disk, vtt_files, clock, out_fs, printed, csv_vars, md_vars>>

\* os.path.join(directory, "md", f"summary_{base_name}_{timestamp}.md")
default_path_beside_input(base_name, timestamp) ==
    [dir |-> Dir, name |-> <<"summary_">> \o base_name \o <<"_", timestamp, ".md">>]

default_path(base_name, timestamp) ==
    [dir |-> Dir \o <<"md">>, name |-> <<"summary_">> \o base_name \o <<"_", timestamp, ".md">>]

\* datetime.now().strftime("%Y%m%d%H%M%S")
strftime(t) == ToString(t)

\* timestamp, md_file_path and the if result / else that follows.
Stamp ==
    /\ pc = "stamp"
    /\ \E t \in { u \in {clock, clock + 1} : u <= MaxClock } :
          /\ clock' = t
          /\ LET path == IF ~DirectoryMode /\ args.output_md # NoOut
                         THEN args.output_md
                         ELSE default_path(cur.base_name, strftime(t))
             IN  IF cur.result # <<>>
                 THEN /\ cur' = [cur EXCEPT !.md_file_path = path]
                      /\ printed' = printed \o <<"Extracted Information:", "result">>
                      /\ pc' = "save"
                      /\ idx' = idx
                 ELSE /\ cur' = [cur EXCEPT !.md_file_path = path]
                      /\ printed' = printed \o <<"Extracted Information:",
                                                 "No valid information extracted.",
                                                 "Information extraction completed.">>
                      /\ FileDone
    /\ UNCHANGED <<args, disk, vtt_files, log, out_fs, csv_vars, md_vars>>

Put(fs, path, content) ==
    [ q \in DOMAIN fs \cup {path} |-> IF q = path THEN content ELSE fs[q] ]

\* save_md_to_file: makedirs when the path has a directory part, open(path, 'w'),
\* write; each of the three may raise, and open leaves the file empty.
Save ==
    /\ pc = "save"
    /\ LET path == cur.md_file_path
           mk   == IF path.dir # <<>> THEN <<Event("makedirs", path.dir)>> ELSE <<>>
       IN  \/ /\ Propagate("makedirs")
              /\ path.dir # <<>>
              /\ UNCHANGED <<log, out_fs, printed>>
           \/ /\ Propagate("open")
              /\ log' = log \o mk
              /\ UNCHANGED <<out_fs, printed>>
           \/ /\ Propagate("write")
              /\ log' = log \o mk \o <<Event("open", path)>>
              /\ out_fs' = Put(out_fs, path, <<>>)
              /\ UNCHANGED printed
           \/ /\ log' = log \o mk \o <<Event("open", path),
                                       [op |-> "write", file |-> cur.name, what |-> path,
                                        base_name |-> cur.base_name,
                                        content |-> cur.result]>>
              /\ out_fs' = Put(out_fs, path, cur.result)
              /\ printed' = printed \o <<"Markdown file saved",
                                         "Information extraction completed.">>
              /\ cur' = cur
              /\ FileDone
    /\ UNCHANGED <<args, disk, vtt_files, clock, csv_vars, md_vars>>

Next ==
    \/ MainDirectory \/ MainNotFound \/ MainFile \/ MainHelp
    \/ LoopHead \/ LoadParticipants \/ ReadTranscript
    \/ SendRequest \/ ReceiveResponse \/ Stamp \/ Save

Spec == MainInit /\ [][Next]_vars

----------------------------------------------------------------------------
(* Specifications of the two functions taken alone *)

\* read_csv_file, or the expression of its callers, on any attendance file.
CsvInit ==
    /\ csv_file \in CsvFiles
    /\ csv_ret = CsvIdle
    /\ csv_call = "none"
    /\ md_content = <<>>
    /\ md_participants = <<>>
    /\ md_out = MdIdle
    /\ args = [input |-> <<>>, directory |-> <<>>, output_md |-> NoOut]
    /\ disk = [files |-> <<>>, csv |-> <<>>]
    /\ pc = "idle"
    /\ vtt_files = <<>>
    /\ idx = 0
    /\ cur = NoCur
    /\ clock = 0
    /\ log = <<>>
    /\ out_fs = <<>>
    /\ printed = <<>>

CsvNext == CallReadCsv \/ CallParticipantsOrEmpty

SpecCsv == CsvInit /\ [][CsvNext]_vars

\* structure_markdown on any response text and participant list.
MdInit ==
    /\ md_content \in MdTexts
    /\ md_participants \in ParticipantLists
    /\ md_out = MdIdle
    /\ csv_file = NoFile
    /\ csv_ret = CsvIdle
    /\ csv_call = "none"
    /\ args = [input |-> <<>>, directory |-> <<>>, output_md |-> NoOut]
    /\ disk = [files |-> <<>>, csv |-> <<>>]
    /\ pc = "idle"
    /\ vtt_files = <<>>
    /\ idx = 0
    /\ cur = NoCur
    /\ clock = 0
    /\ log = <<>>
    /\ out_fs = <<>>
    /\ printed = <<>>

SpecMd == MdInit /\ [][CallStructure]_vars

----------------------------------------------------------------------------
(* Vocabulary of the properties, defined without the operators above *)

Min(S) == CHOOSE i \in S : \A j \in S : i <= j
Max(S) == CHOOSE i \in S : \A j \in S : j <= i

\* The k-th smallest element of a set of numbers.
Kth(S, k) == CHOOSE i \in S : Cardinality({ j \in S : j <= i }) = k

NonWs(l) == { i \in 1..Len(l) : l[i] \notin Whitespace }

\* A text without the whitespace around it.
Trimmed(l) == IF NonWs(l) = {} THEN <<>> ELSE SubSeq(l, Min(NonWs(l)), Max(NonWs(l)))

NonBlank(l) == NonWs(l) # {}
NB(ls) == SelectSeq(ls, NonBlank)

NLs(t) == { i \in 1..Len(t) : t[i] = NL }

\* The lines of a text each line of which ends with "\n".
RECURSIVE TermLines(_)
TermLines(t) ==
    IF NLs(t) = {} THEN <<>>
    ELSE <<SubSeq(t, 1, Min(NLs(t)) - 1)>> \o TermLines(SubSeq(t, Min(NLs(t)) + 1, Len(t)))

\* The lines of a text whose lines are separated by "\n".
SepLines(t) == TermLines(t \o <<NL>>)

TitleLine(base) == <<"#", SP>> \o base
SectionLine(h) == H2 \o <<h>>
ParticipantsLine == H2 \o <<"Participants">>
BulletLine(p) ==
    <<"-", SP>> \o p.name \o <<SP, "(Total Duration:", SP>> \o p.total_duration \o <<")">>
ParticipantsBlock(ps) == <<ParticipantsLine>> \o [ i \in 1..Len(ps) |-> BulletLine(ps[i]) ]

\* A line that is a section name once the whitespace around it is removed.
Headerish(l) == Len(Trimmed(l)) = 1 /\ Trimmed(l)[1] \in Headers
HeaderIdx(L) == { i \in 1..Len(L) : Headerish(L[i]) }

\* A line structure_markdown takes for a section header: a section name,
\* blanks allowed after it, and before it on the first line of the text only.
Recognized(L, i) == Headerish(L[i]) /\ (i = 1 \/ Head(L[i]) \in Headers)
RecognizedIdx(L) == { i \in 1..Len(L) : Recognized(L, i) }

----------------------------------------------------------------------------
(* read_csv_file: C1, C5 *)

DataRows == SubSeq(csv_file.rows, 5, Len(csv_file.rows))
Good == { i \in 1..Len(DataRows) : Len(DataRows[i]) >= 3 }
RecordOf(row) == [name |-> Trimmed(row[1]), total_duration |-> Trimmed(row[3])]

\* C1: on a file with at least 4 rows, read_csv_file returns without error
\* one record {name: trim(field 0), total_duration: trim(field 2)} for each
\* row after the first 4 that has at least 3 fields, in file order, and
\* nothing for the rows with fewer than 3 fields.
C1_ReadCsvRecords ==
    (csv_call = "read_csv_file" /\ csv_file.exists /\ Len(csv_file.rows) >= 4) =>
        /\ csv_ret.status = "ok"
        /\ Len(csv_ret.value) = Cardinality(Good)
        /\ \A k \in 1..Len(csv_ret.value) :
              csv_ret.value[k] = RecordOf(DataRows[Kth(Good, k)])

C1_Witness ==
    /\ csv_call = "read_csv_file"
    /\ Len(csv_file.rows) = 6
    /\ Len(csv_file.rows[5]) = 2
    /\ csv_file.rows[6] = << <<SP, "n", SP>>, <<"e">>, <<"d", SP, SP>> >>
    /\ csv_ret = [status |-> "ok",
                  value |-> << [name |-> <<"n">>, total_duration |-> <<"d">>] >>]

\* C5 as stated: read_csv_file returns an empty list, and raises nothing, when
\* the file at the path does not exist.
C5_ReadCsvMissingReturnsEmpty ==
    (csv_call = "read_csv_file" /\ ~csv_file.exists) =>
        csv_ret = [status |-> "ok", value |-> <<>>]

\* C5 amended: when the attendance file does not exist, the expression by
\* which process_files and main obtain the participants yields the empty
\* list, raises nothing and does not call read_csv_file.
C5_MissingFileGivesNoParticipants ==
    (csv_call \in {"caller", "caller, read_csv_file"} /\ ~csv_file.exists) =>
        /\ csv_ret = [status |-> "ok", value |-> <<>>]
        /\ csv_call = "caller"

C5_Witness ==
    /\ csv_call = "caller"
    /\ ~csv_file.exists
    /\ csv_ret = [status |-> "ok", value |-> <<>>]

----------------------------------------------------------------------------
(* structure_markdown: C2, C3, C9 *)

InLines  == SepLines(md_content)
OutLines == TermLines(md_out.value)
EndsWithNL(t) == t # <<>> /\ t[Len(t)] = NL

\* The lines strictly between two positions of the input.
Between(L, a, b) == SubSeq(L, a + 1, b - 1)

\* The header lines of the text are four, they are the bare section names in
\* the order of the document, and each has a non-blank line in its section.
FourSectionsInOrder(L) ==
    /\ Cardinality(HeaderIdx(L)) = 4
    /\ LET h(k) == Kth(HeaderIdx(L), k)
       IN  /\ <<L[h(1)], L[h(2)], L[h(3)], L[h(4)]>> = << <<MO>>, <<MT>>, <<DI>>, <<AI>> >>
           /\ \A k \in 1..3 : NB(Between(L, h(k), h(k + 1))) # <<>>
           /\ NB(Between(L, h(4), Len(L) + 1)) # <<>>

\* C2: on a text with the four section names, each on its own line, in order
\* and each followed by non-blank lines, the document is the title, four
\* "## <name>" blocks in that order, each holding the non-blank lines of its
\* section verbatim and in order, then "## Participants" with one bullet
\* "- {name} (Total Duration: {total_duration})" per participant, in order.
C2_FourBlocksThenParticipants ==
    (md_out.called /\ FourSectionsInOrder(InLines)) =>
        LET L == InLines
            h(k) == Kth(HeaderIdx(L), k)
        IN  /\ EndsWithNL(md_out.value)
            /\ NB(OutLines) =
                  <<TitleLine(MdBase)>> \o NB(Between(L, 0, h(1)))
                  \o <<SectionLine(MO)>> \o NB(Between(L, h(1), h(2)))
                  \o <<SectionLine(MT)>> \o NB(Between(L, h(2), h(3)))
                  \o <<SectionLine(DI)>> \o NB(Between(L, h(3), h(4)))
                  \o <<SectionLine(AI)>> \o NB(Between(L, h(4), Len(L) + 1))
                  \o ParticipantsBlock(md_participants)

C2_Witness ==
    /\ md_out.called
    /\ FourSectionsInOrder(InLines)
    /\ <<SP, "y">> \in Range(InLines)
    /\ md_participants = <<P2, P1>>

\* Where the leading content ends: the first recognized header, or the end.
LeadEnd(L) == IF RecognizedIdx(L) = {} THEN Len(L) + 1 ELSE Min(RecognizedIdx(L))

\* C3: the lines of the text before the first recognized section header come
\* out verbatim and in order, right after the title, with no "## " line put
\* before them, and before the first section header the structurer emits.
C3_LeadingContentKept ==
    md_out.called =>
        LET L    == InLines
            lead == NB(Between(L, 0, LeadEnd(L)))
            out  == NB(OutLines)
        IN  /\ Len(out) >= Len(lead) + 2
            /\ SubSeq(out, 1, Len(lead) + 1) = <<TitleLine(MdBase)>> \o lead
            /\ out[Len(lead) + 2] =
                  IF LeadEnd(L) <= Len(L) THEN H2 \o Trimmed(L[LeadEnd(L)])
                  ELSE ParticipantsLine

C3_Witness ==
    /\ md_out.called
    /\ LeadEnd(InLines) = 3
    /\ InLines[1] = <<MT, ":">>
    /\ InLines[2] = <<SP, "y">>
    /\ SubSeq(OutLines, 1, 5) =
          << TitleLine(MdBase), <<>>, <<MT, ":">>, <<SP, "y">>, <<>> >>

\* What becomes of each line of the input: a recognized header gets "## "
\* and loses the blanks around it, any other line is copied.
Marked(L) == [ i \in 1..Len(L) |-> IF Recognized(L, i) THEN H2 \o Trimmed(L[i]) ELSE L[i] ]

PassedThroughInPlace ==
    /\ EndsWithNL(md_out.value)
    /\ NB(OutLines) = <<TitleLine(MdBase)>> \o NB(Marked(InLines))
                         \o ParticipantsBlock(md_participants)

IsH2(l) == Len(l) >= 3 /\ SubSeq(l, 1, 3) = H2

\* C9 as stated: every line of the document that begins with "## ", the
\* trailing "## Participants" apart, is "## " and one of the four section
\* names; every other line of the input is passed through unmodified, in place.
C9_OnlyTheFourHeaders ==
    md_out.called =>
        LET O == OutLines
        IN  /\ \A i \in 1..Len(O) :
                  (IsH2(O[i]) /\ i # Len(O) - Len(md_participants)) =>
                      O[i] \in { SectionLine(h) : h \in Headers }
            /\ PassedThroughInPlace

\* C9 amended: every "## " line of the document is "## " and one of the four
\* section names, or the trailing "## Participants", or a line of the input
\* that itself begins with "## "; every line of the input that is not a
\* recognized header is passed through unmodified, in place.
C9_AddedHeadersAreTheFour ==
    md_out.called =>
        LET O == OutLines
            I == Range(InLines)
        IN  /\ \A i \in 1..Len(O) :
                  IsH2(O[i]) =>
                      \/ O[i] \in { SectionLine(h) : h \in Headers }
                      \/ i = Len(O) - Len(md_participants)
                      \/ O[i] \in I
            /\ PassedThroughInPlace

C9_Witness ==
    /\ md_out.called
    /\ InLines = << <<MT>>, <<MT, ":">>, H2 \o <<"S">> >>
    /\ NB(OutLines) = << TitleLine(MdBase), SectionLine(MT), <<MT, ":">>, H2 \o <<"S">> >>
                         \o ParticipantsBlock(md_participants)

----------------------------------------------------------------------------
(* main, process_files, extract_meeting_notes: C4, C6, C7, C8, C10 *)

EventsOf(f) == SelectSeq(log, LAMBDA e : e.file = f)
WritesOf(f) == SelectSeq(log, LAMBDA e : e.file = f /\ e.op = "write")
LlmEventsOf(f) ==
    SelectSeq(log, LAMBDA e : e.file = f /\ e.op \in {"llm_request", "llm_return"})

\* The "*.vtt" files of the directory.
VttOnDisk == { n \in Range(disk.files) : n[Len(n)] = VttExt }

\* The records an attendance file holds; none when there is no file.
RecordCount(file) ==
    IF ~file.exists THEN 0
    ELSE Cardinality({ i \in 5..Len(file.rows) : Len(file.rows[i]) >= 3 })

IsBullet(l) == Len(l) >= 2 /\ SubSeq(l, 1, 2) = <<"-", SP>>

\* The document begins with the title of the base name and ends with
\* "## Participants" and n bullets.
TitledWithBullets(doc, base, n) ==
    LET L == TermLines(doc)
    IN  /\ EndsWithNL(doc)
        /\ Len(L) >= n + 2
        /\ L[1] = TitleLine(base)
        /\ L[Len(L) - n] = ParticipantsLine
        /\ \A i \in (Len(L) - n + 1)..Len(L) : IsBullet(L[i])

\* C4: a run over a directory in which nothing failed has written once for
\* each "*.vtt" file, to {dir}/md/summary_{base_name}_{timestamp}.md, a
\* document that begins with "# {base_name}" and ends with "## Participants"
\* and as many bullets as {base_name}.csv holds records (none without the
\* file); "No valid information extracted." is never printed.
C4_DirectoryWritesOneDocumentPerFile ==
    /\ "No valid information extracted." \notin Range(printed)
    /\ (DirectoryMode /\ pc = "done") =>
          \A f \in VttOnDisk :
              /\ Len(WritesOf(f)) = 1
              /\ LET w == WritesOf(f)[1]
                 IN  /\ \E t \in 0..MaxClock :
                           w.what = [dir  |-> Dir \o <<"md">>,
                                     name |-> <<"summary_">> \o w.base_name
                                                \o <<"_", ToString(t), ".md">>]
                     /\ TitledWithBullets(
                            w.content, w.base_name,
                            RecordCount(file_at(disk, w.base_name \o <<".csv">>)))

C4_Witness ==
    /\ DirectoryMode
    /\ pc = "done"
    /\ Cardinality(VttOnDisk) = 2
    /\ N1 \in VttOnDisk
    /\ disk.csv[<<"m", ".csv">>] = CsvTwo
    /\ Len(WritesOf(N1)) = 1
    /\ TitledWithBullets(WritesOf(N1)[1].content, <<"m">>, 2)

\* C6: with -i on a path that does not exist and no -d, main prints the
\* not-found message and returns; with neither -i nor -d it prints the help;
\* either way nothing is read, no request is made, no directory is created
\* and nothing is written.
C6_NoUsableInputNoEffect ==
    (args.directory = <<>> /\ (args.input = <<>> \/ args.input \notin Range(disk.files))) =>
        /\ log = <<>>
        /\ DOMAIN out_fs = {}
        /\ pc \in {"start", "done"}
        /\ pc = "start" => printed = <<>>
        /\ pc = "done" =>
              printed = IF args.input = <<>> THEN <<"help">> ELSE <<"File not found">>

C6_Witness ==
    /\ args.directory = <<>>
    /\ args.input = N1
    /\ disk.files = <<N3>>
    /\ pc = "done"
    /\ printed = <<"File not found">>
    /\ log = <<>>

PosOf(f) == CHOOSE i \in 1..Len(vtt_files) : vtt_files[i] = f

\* The events of a file the pipeline of which has run to its end.
CompleteRun(f) ==
    LET E == EventsOf(f)
        k == IF E # <<>> /\ E[1].op = "read_csv" THEN 1 ELSE 0
    IN  /\ Len(E) = k + 14
        /\ E[k + 1].op = "read_vtt"
        /\ \A j \in 1..5 : /\ E[k + 2 * j].op = "llm_request"
                           /\ E[k + 2 * j + 1].op = "llm_return"
        /\ E[k + 12].op = "makedirs"
        /\ E[k + 13].op = "open"
        /\ E[k + 14].op = "write"

\* C7: over a directory the files are processed one at a time, a file being
\* touched only when the one before it has been read, sent five times and
\* written; and a step that raises ends the run: nothing more happens, no
\* later file is touched, and what was written before is still there.
C7_DirectoryOneAtATimeNoIsolation ==
    DirectoryMode =>
        /\ \A i \in 1..Len(log) : log[i].file \in Range(vtt_files)
        /\ \A i \in 1..(Len(log) - 1) :
              PosOf(log[i].file) <= PosOf(log[i + 1].file)
        /\ \A i \in 1..Len(vtt_files) :
              (i < idx /\ pc # "start") => CompleteRun(vtt_files[i])
        /\ \A i \in 1..Len(vtt_files) : i > idx => EventsOf(vtt_files[i]) = <<>>
        /\ cur.error # "none" => pc = "crashed"
        /\ pc = "crashed" =>
              /\ ~ENABLED Next
              /\ \A i \in 1..Len(vtt_files) :
                    i < idx => WritesOf(vtt_files[i])[1].what \in DOMAIN out_fs

C7_Witness ==
    /\ DirectoryMode
    /\ pc = "crashed"
    /\ idx = 2
    /\ Len(vtt_files) = 3
    /\ CompleteRun(vtt_files[1])
    /\ WritesOf(vtt_files[1])[1].what \in DOMAIN out_fs
    /\ cur.error = "llm"
    /\ EventsOf(vtt_files[3]) = <<>>

\* The requests and returns of one transcript, in the order of the pipeline.
LlmPattern ==
    [ i \in 1..10 |-> [op     |-> IF i % 2 = 1 THEN "llm_request" ELSE "llm_return",
                       prompt |-> Prompts[(i + 1) \div 2]] ]

\* The four results under their section names.
Combined(r) ==
    JoinWith(<< <<MO>>, r[1], <<>>, <<MT>>, r[2], <<>>, <<DI>>, r[3], <<>>, <<AI>>, r[4] >>,
             <<NL>>)

\* C8: for each transcript the requests are overview, main topics, decisions
\* and impact, action items, post-processing, each sent after the one before
\* it has returned; the post-processing request carries the four results
\* under their section names in that order; a request that fails ends the
\* run with no retry, no later request and no file written for the transcript.
C8_FiveRequestsInOrder ==
    /\ \A f \in Range(disk.files) \cup {args.input} :
          LET E == LlmEventsOf(f)
          IN  /\ Len(E) <= 10
              /\ \A i \in 1..Len(E) :
                    E[i].op = LlmPattern[i].op /\ E[i].what = LlmPattern[i].prompt
              /\ WritesOf(f) # <<>> => (Len(E) = 10 /\ Len(WritesOf(f)) = 1)
    /\ pc = "llm_wait" =>
          /\ cur.request.prompt = Prompts[cur.k]
          /\ cur.k <= 4 => cur.request.input = cur.transcript
          /\ cur.k = 5 => cur.request.input = Combined(cur.responses)
          /\ Len(LlmEventsOf(cur.name)) = 2 * cur.k - 1
    /\ cur.error = "llm" =>
          /\ pc = "crashed"
          /\ ~ENABLED Next
          /\ log[Len(log)].op = "llm_request"
          /\ \A i \in 1..Len(log) :
                log[i].file = cur.name => log[i].op \notin {"makedirs", "open", "write"}

C8_Witness ==
    /\ pc = "llm_wait"
    /\ cur.k = 5
    /\ cur.responses = << <<"r">>, <<"s">>, <<"s">>, <<"r">> >>
    /\ cur.request = [prompt |-> "post_processing_prompt",
                      input  |-> <<MO, NL, "r", NL, NL, MT, NL, "s", NL, NL,
                                   DI, NL, "s", NL, NL, AI, NL, "r">>]

\* A file name without a ".vtt" that ends it.
ExtensionStripped(name) ==
    IF name # <<>> /\ name[Len(name)] = VttExt THEN SubSeq(name, 1, Len(name) - 1) ELSE name

\* C10: the base name of a transcript is its file name without the ".vtt" at
\* its end, every other character kept; the attendance file looked up is
\* {base_name}.csv, the title is "# {base_name}" and the default output path
\* is {input_dir}/md/summary_{base_name}_{timestamp}.md.
C10_BaseNameIsNameWithoutExtension ==
    (pc \in {"vtt", "llm_send", "llm_wait", "stamp", "save"}) =>
        LET base == ExtensionStripped(cur.name)
        IN  /\ cur.base_name = base
            /\ cur.csv_name = base \o <<".csv">>
            /\ pc \in {"stamp", "save"} => TermLines(cur.result)[1] = TitleLine(base)
            /\ (pc = "save" /\ (DirectoryMode \/ args.output_md = NoOut)) =>
                  \E t \in 0..MaxClock :
                      cur.md_file_path =
                          [dir  |-> Dir \o <<"md">>,
                           name |-> <<"summary_">> \o base \o <<"_", ToString(t), ".md">>]

====
